---- MODULE Spec2Model ----
(***************************************************************************)
(* Content-ROI analytics: last-touch attribution (attribution.py), the     *)
(* LTV and show/genre roll-ups (analysis_and_plots.py), the                *)
(* attribution-window sweep (sensitivity_analysis.py) and the enriched     *)
(* ledger of the data pipeline (complete_pipeline.py).                     *)
(*                                                                         *)
(* Dates are day numbers, day 0 = 2024-12-01.  Money is in whole units.    *)
(* A missing value (None / NaN in a string column) is NULL.  A float is a  *)
(* record [k, n, d]: k = "num" (the fraction n/d, reduced, d > 0), "inf",  *)
(* "ninf" or "nan".                                                        *)
(***************************************************************************)
EXTENDS Integers, Sequences, FiniteSets, TLC

VARIABLES
    content,      \* netflix_content.csv as loaded: the catalog rows, in file order
    users,        \* user_base.csv as loaded: the ledger rows, in file order
    tieRank,      \* the order the unstable sort of this build gives tied rows
    window,       \* window_days of the latest assign_last_touch call
    attributed,   \* the frame the latest assign_last_touch call returned
    hasEnriched,  \* user_attribution_enriched.csv exists
    enrichedFile, \* its rows
    ledger,       \* the latest frame with lifetime_months and ltv
    show_rev,     \* show_rev of the latest analysis run
    genre_fin,    \* genre_fin of the latest analysis run or sweep point
    rows,         \* rows of the sweep in progress
    wi,           \* windows handled so far by the sweep in progress
    swPc,         \* sweep: "idle", "loop" or "done"
    plot,         \* df_plot as last written to sensitivity_attribution_window.png
    op            \* the latest operation and how it ended

vars == <<content, users, tieRank, window, attributed, hasEnriched,
          enrichedFile, ledger, show_rev, genre_fin, rows, wi, swPc, plot, op>>

\* ------------------------------------------------------------------ bounds
NShows == 2
NUsers == 2

\* ------------------------------------------------------- program constants
WINDOW_DAYS == 7
windows == <<3, 7, 14>>
GenresOfInterest == <<"Sci-Fi", "Comedy">>

\* --------------------------------------------------------------- the inputs
NULL == "null"
ShowIds == <<"S1", "S2", "S3", "S4">>
UserIds == <<"U1", "U2", "U3", "U4">>
\* an attributed_show_id the catalog does not hold
StrayId == "SX"
ReleaseDates == {0, 7}
SignupDates == {2, 7, 14}
Revenues == {6, 10}
Costs == {0, 1000}
Genres == {"Sci-Fi", "Comedy"}
\* last_active dates offered to a user who signed up on day s: the same day,
\* 2024-12-31, 2025-02-01, and 2024-11-30 (before every signup)
LastActiveDates == [s \in SignupDates |-> {s, 30, 62, -1}]

\* ------------------------------------------------------------ the calendar
\* .dt.year and .dt.month of a day number in 2024-11-01 .. 2025-02-28
YearOf(d) == IF d < 31 THEN 2024 ELSE 2025
MonthOf(d) == IF d < 0 THEN 11 ELSE IF d < 31 THEN 12 ELSE IF d < 62 THEN 1 ELSE 2

\* ------------------------------------------------------------------ floats
RECURSIVE GCD(_, _)
GCD(a, b) == IF b = 0 THEN a ELSE GCD(b, a % b)
Abs(x) == IF x < 0 THEN -x ELSE x
NaN == [k |-> "nan", n |-> 0, d |-> 1]
Inf == [k |-> "inf", n |-> 0, d |-> 1]
NInf == [k |-> "ninf", n |-> 0, d |-> 1]
\* the float n/d for d # 0
Frac(n, d) ==
    LET g == GCD(Abs(n), Abs(d))
        s == IF d < 0 THEN -1 ELSE 1
    IN [k |-> "num", n |-> (s * n) \div g, d |-> (s * d) \div g]
Num(x) == Frac(x, 1)
Sign(x) == IF x.k = "inf" THEN 1 ELSE IF x.k = "ninf" THEN -1
           ELSE IF x.n > 0 THEN 1 ELSE IF x.n < 0 THEN -1 ELSE 0
IsFinite(x) == x.k = "num"
\* IEEE subtraction and division as numpy does them on float columns
FSub(a, b) ==
    IF a.k = "nan" \/ b.k = "nan" THEN NaN
    ELSE IF IsFinite(a) /\ IsFinite(b) THEN Frac(a.n * b.d - b.n * a.d, a.d * b.d)
    ELSE IF IsFinite(b) THEN a
    ELSE IF IsFinite(a) THEN (IF b.k = "inf" THEN NInf ELSE Inf)
    ELSE IF a.k = b.k THEN NaN ELSE a
FDiv(a, b) ==
    IF a.k = "nan" \/ b.k = "nan" THEN NaN
    ELSE IF IsFinite(a) /\ IsFinite(b) THEN
        IF b.n # 0 THEN Frac(a.n * b.d, a.d * b.n)
        ELSE IF a.n > 0 THEN Inf ELSE IF a.n < 0 THEN NInf ELSE NaN
    ELSE IF IsFinite(a) THEN Num(0)
    ELSE IF ~IsFinite(b) THEN NaN
    ELSE IF Sign(a) * (IF Sign(b) < 0 THEN -1 ELSE 1) > 0 THEN Inf ELSE NInf

\* -------------------------------------------------------------- sequences
Range(s) == {s[i] : i \in DOMAIN s}
RECURSIVE SumSeq(_)
SumSeq(s) == IF s = <<>> THEN 0 ELSE Head(s) + SumSeq(Tail(s))
Last(s) == s[Len(s)]
Front(s) == SubSeq(s, 1, Len(s) - 1)
\* a stable sort of rows [k1, k2, row] on (k1, k2), ascending
KeyLE(a, b) == a.k1 < b.k1 \/ (a.k1 = b.k1 /\ a.k2 <= b.k2)
InsertKeyed(x, s) ==
    LET n == Cardinality({i \in DOMAIN s : KeyLE(s[i], x)})
    IN SubSeq(s, 1, n) \o <<x>> \o SubSeq(s, n + 1, Len(s))
RECURSIVE SortKeyed(_)
SortKeyed(s) == IF s = <<>> THEN <<>> ELSE InsertKeyed(Last(s), SortKeyed(Front(s)))
IndexOf(seq, x) == CHOOSE i \in DOMAIN seq : seq[i] = x
Perms(n) == {p \in [1..n -> 1..n] : \A i, j \in 1..n : i # j => p[i] # p[j]}

\* ============================================================ attribution.py
\* sign_up_date within [release_date, release_date + window], both inclusive
CondFlipped(row) == row.sign_up_date >= row.release_date /\ row.sign_up_date >= row.window_end
Cond(row) == row.sign_up_date >= row.release_date /\ row.sign_up_date <= row.window_end

\* content[['show_id','release_date']].sort_values('release_date') with the
\* window columns added.  The default sort kind is not stable: rank gives the
\* order in which rows of equal release_date come out.
ContentSmall(cat, window_days, rank) ==
    LET sorted == SortKeyed([i \in DOMAIN cat |->
                      [k1 |-> cat[i].release_date, k2 |-> rank[i], row |-> cat[i]]])
    IN [k \in DOMAIN sorted |->
          [show_id |-> sorted[k].row.show_id,
           release_date |-> sorted[k].row.release_date,
           window_start |-> sorted[k].row.release_date,
           window_end |-> sorted[k].row.release_date + window_days]]

\* users_exp.merge(content_small, on='key'): every user row with every content
\* row, user rows in ledger order, content rows in content_small order
CrossJoin(us, cs) ==
    [k \in 1..(Len(us) * Len(cs)) |->
        LET u == us[((k - 1) \div Len(cs)) + 1]
            c == cs[((k - 1) % Len(cs)) + 1]
        IN [user_id |-> u.user_id, sign_up_date |-> u.sign_up_date,
            show_id |-> c.show_id, release_date |-> c.release_date,
            window_start |-> c.window_start, window_end |-> c.window_end]]

\* merged.sort_values(['user_id','release_date']): a stable sort on two keys
SortMergedDescending(merged) ==
    LET sorted == SortKeyed([i \in DOMAIN merged |->
                      [k1 |-> IndexOf(UserIds, merged[i].user_id),
                       k2 |-> 0 - merged[i].release_date, row |-> merged[i]]])
    IN [k \in DOMAIN sorted |-> sorted[k].row]
SortMerged(merged) ==
    LET sorted == SortKeyed([i \in DOMAIN merged |->
                      [k1 |-> IndexOf(UserIds, merged[i].user_id),
                       k2 |-> merged[i].release_date, row |-> merged[i]]])
    IN [k \in DOMAIN sorted |-> sorted[k].row]

\* merged.groupby('user_id').last(): the show_id of the last row of each user
LastTouchFirst(merged, uid) == Head(SelectSeq(merged, LAMBDA r : r.user_id = uid)).show_id
LastTouch(merged, uid) == Last(SelectSeq(merged, LAMBDA r : r.user_id = uid)).show_id

\* the frame with column attributed_show_id set to f
SetAttribution(us, f) ==
    [i \in DOMAIN us |-> [us[i] EXCEPT !.attributed_show_id = f[i]]]

\* assign_last_touch: ret is the frame returned, arg the frame the caller
\* passed as it is after the call (the no-match path writes into it)
assign_last_touch(cat, us, window_days, rank) ==
    LET content_small == ContentSmall(cat, window_days, rank)
        merged == SelectSeq(CrossJoin(us, content_small), Cond)
    IN IF merged = <<>>
       THEN LET cleared == SetAttribution(us, [i \in DOMAIN us |-> NULL])
            IN [ret |-> cleared, arg |-> cleared]
       ELSE LET sorted == SortMerged(merged)
                matched == {r.user_id : r \in Range(sorted)}
                new(i) == IF us[i].user_id \in matched
                          THEN LastTouch(sorted, us[i].user_id) ELSE NULL
                coalesce == [i \in DOMAIN us |->
                               IF new(i) # NULL THEN new(i)
                               ELSE us[i].attributed_show_id]
            IN [ret |-> SetAttribution(us, coalesce), arg |-> us]

\* =================================================== analysis_and_plots.py
\* calendar-month difference of last_active_date and sign_up_date
ElapsedMonths(u) == (u.last_active_date - u.sign_up_date) \div 30
MonthDiff(u) ==
    (YearOf(u.last_active_date) - YearOf(u.sign_up_date)) * 12
    + (MonthOf(u.last_active_date) - MonthOf(u.sign_up_date))
Maximum(a, b) == IF a >= b THEN a ELSE b

\* compute_ltv, and the same lines at the head of compute_genre_metrics
compute_ltv(us) ==
    [i \in DOMAIN us |->
        LET lifetime_months == Maximum(1, MonthDiff(us[i]))
        IN [user_id |-> us[i].user_id,
            sign_up_date |-> us[i].sign_up_date,
            last_active_date |-> us[i].last_active_date,
            monthly_revenue |-> us[i].monthly_revenue,
            attributed_show_id |-> us[i].attributed_show_id,
            lifetime_months |-> lifetime_months,
            ltv |-> us[i].monthly_revenue * lifetime_months]]

\* the catalog row a left merge on show_id finds for an id; NULL and NaN
\* columns when there is none
Lookup(cat, id) ==
    IF \E j \in DOMAIN cat : cat[j].show_id = id
    THEN LET c == cat[CHOOSE j \in DOMAIN cat : cat[j].show_id = id]
         IN [show_id |-> c.show_id, genre |-> c.genre,
             production_cost |-> Num(c.production_cost)]
    ELSE [show_id |-> NULL, genre |-> NULL, production_cost |-> NaN]

\* the order of string keys a groupby leaves its groups in
IdRank(id) == IF id = StrayId THEN Len(ShowIds) + 1 ELSE IndexOf(ShowIds, id)
GenreOrder == <<"Comedy", "Sci-Fi">>
SortedIds(S) ==
    LET ids == [k \in 1..(Len(ShowIds) + 1) |-> IF k <= Len(ShowIds) THEN ShowIds[k] ELSE StrayId]
    IN SelectSeq(ids, LAMBDA x : x \in S)

\* enriched.groupby('attributed_show_id').agg(count, sum) merged with the
\* catalog: one row per distinct non-null attributed_show_id
ShowRev(lt, cat) ==
    LET keys == SortedIds({lt[i].attributed_show_id : i \in DOMAIN lt} \ {NULL})
    IN [k \in DOMAIN keys |->
          LET grp == SelectSeq(lt, LAMBDA u : u.attributed_show_id = keys[k])
              c == Lookup(cat, keys[k])
          IN [attributed_show_id |-> keys[k],
              attributed_users |-> Len(grp),
              total_revenue |-> SumSeq([i \in DOMAIN grp |-> grp[i].ltv]),
              show_id |-> c.show_id, genre |-> c.genre,
              production_cost |-> c.production_cost]]

\* show_rev['roi'] = (total_revenue - production_cost) / production_cost
RoiNoSubtraction(r) == FDiv(Num(r.total_revenue), r.production_cost)
Roi(r) == FDiv(FSub(Num(r.total_revenue), r.production_cost), r.production_cost)
WithRoi(sr) ==
    [k \in DOMAIN sr |->
        [attributed_show_id |-> sr[k].attributed_show_id,
         attributed_users |-> sr[k].attributed_users,
         total_revenue |-> sr[k].total_revenue,
         show_id |-> sr[k].show_id, genre |-> sr[k].genre,
         production_cost |-> sr[k].production_cost,
         roi |-> Roi(sr[k])]]

\* total_attributed_users.replace(0, np.nan)
ReplaceZero(n) == IF n = 0 THEN NaN ELSE Num(n)

\* show_rev.groupby('genre').agg(sum, sum, sum) and the three ratios: one row
\* per genre that a show_rev row carries; rows without a genre are dropped
GenreRowPerUser(g, grp) ==
    LET total_revenue == SumSeq([i \in DOMAIN grp |-> grp[i].total_revenue])
        total_prod_cost == SumSeq([i \in DOMAIN grp |->
                               grp[i].production_cost.n * grp[i].attributed_users])
        total_attributed_users == SumSeq([i \in DOMAIN grp |-> grp[i].attributed_users])
        cac_per_user == FDiv(Num(total_prod_cost), ReplaceZero(total_attributed_users))
        ltv_per_user == FDiv(Num(total_revenue), ReplaceZero(total_attributed_users))
    IN [genre |-> g, total_revenue |-> total_revenue,
        total_prod_cost |-> total_prod_cost,
        total_attributed_users |-> total_attributed_users,
        cac_per_user |-> cac_per_user, ltv_per_user |-> ltv_per_user,
        ltv_to_cac |-> FDiv(ltv_per_user, cac_per_user)]
GenreRow(g, grp) ==
    LET total_revenue == SumSeq([i \in DOMAIN grp |-> grp[i].total_revenue])
        total_prod_cost == SumSeq([i \in DOMAIN grp |-> grp[i].production_cost.n])
        total_attributed_users == SumSeq([i \in DOMAIN grp |-> grp[i].attributed_users])
        cac_per_user == FDiv(Num(total_prod_cost), ReplaceZero(total_attributed_users))
        ltv_per_user == FDiv(Num(total_revenue), ReplaceZero(total_attributed_users))
    IN [genre |-> g, total_revenue |-> total_revenue,
        total_prod_cost |-> total_prod_cost,
        total_attributed_users |-> total_attributed_users,
        cac_per_user |-> cac_per_user, ltv_per_user |-> ltv_per_user,
        ltv_to_cac |-> FDiv(ltv_per_user, cac_per_user)]
GenreFinOrganic(sr) ==
    LET filled == [k \in DOMAIN sr |->
                     [sr[k] EXCEPT !.genre = IF @ = NULL THEN "Organic" ELSE @]]
        order == GenreOrder \o <<"Organic">>
        present == SelectSeq(order, LAMBDA g : \E k \in DOMAIN filled : filled[k].genre = g)
    IN [k \in DOMAIN present |->
          GenreRow(present[k], SelectSeq(filled, LAMBDA r : r.genre = present[k]))]
GenreFin(sr) ==
    LET present == SelectSeq(GenreOrder, LAMBDA g : \E k \in DOMAIN sr : sr[k].genre = g)
    IN [k \in DOMAIN present |->
          GenreRow(present[k], SelectSeq(sr, LAMBDA r : r.genre = present[k]))]

\* ================================================= sensitivity_analysis.py
compute_genre_metrics(us, cat) == GenreFin(ShowRev(compute_ltv(us), cat))

\* the two rows one window adds
WindowRowsZeroFill(w, gf) ==
    [k \in DOMAIN GenresOfInterest |->
        LET val == SelectSeq(gf, LAMBDA r : r.genre = GenresOfInterest[k])
        IN [window |-> w, genre |-> GenresOfInterest[k],
            ltv_to_cac |-> IF val = <<>> THEN Num(0) ELSE val[1].ltv_to_cac]]
WindowRows(w, gf) ==
    [k \in DOMAIN GenresOfInterest |->
        LET val == SelectSeq(gf, LAMBDA r : r.genre = GenresOfInterest[k])
        IN [window |-> w, genre |-> GenresOfInterest[k],
            ltv_to_cac |-> IF val = <<>> THEN NaN ELSE val[1].ltv_to_cac]]

\* assign_last_touch(content, users.copy(), window_days=w): the frame returned
\* and the frame bound to `users` after the call, which the copy shields
LoopCallNoCopy(cat, us, w, rank) ==
    LET r == assign_last_touch(cat, us, w, rank) IN [attributed |-> r.ret, users |-> r.arg]
LoopCall(cat, us, w, rank) ==
    LET r == assign_last_touch(cat, us, w, rank) IN [attributed |-> r.ret, users |-> us]

\* rows.append(...) for each genre of interest
AppendRowsFront(rs, new) == new \o rs
AppendRows(rs, new) == rs \o new

\* ====================================================== complete_pipeline.py
\* pd.Timestamp('2025-01-15')
CurrentDate == 45
\* n/d rounded to the nearest integer, halves to the even one (Series.round)
RoundDiv(n, d) ==
    LET q == n \div d
        r == n % d
    IN IF 2 * r < d THEN q
       ELSE IF 2 * r > d THEN q + 1
       ELSE IF q % 2 = 0 THEN q ELSE q + 1
\* (days / 30.44).round(1)
MonthsActiveTenths(days) == RoundDiv(days * 1000, 3044)

\* create_attribution_enriched: the ledger left-merged with the catalog on
\* attributed_show_id, with months_active and ltv; title is not carried
create_attribution_enriched(user_df, content_df) ==
    [i \in DOMAIN user_df |->
        LET u == user_df[i]
            hit == {j \in DOMAIN content_df : content_df[j].show_id = u.attributed_show_id}
            found == hit # {}
            c == content_df[CHOOSE j \in hit : TRUE]
            months_active == Frac(MonthsActiveTenths(u.last_active_date - u.sign_up_date), 10)
            product == Frac(u.monthly_revenue * months_active.n, months_active.d)
        IN [user_id |-> u.user_id,
            sign_up_date |-> u.sign_up_date,
            last_active_date |-> u.last_active_date,
            monthly_revenue |-> u.monthly_revenue,
            attributed_show_id |-> u.attributed_show_id,
            genre |-> IF found THEN c.genre ELSE "Organic",
            production_cost |-> IF found THEN Num(c.production_cost) ELSE Num(0),
            days_since_release |-> IF found THEN Num(u.sign_up_date - c.release_date) ELSE NaN,
            months_active |-> months_active,
            ltv |-> Frac(RoundDiv(product.n * 100, product.d), 100),
            is_churned |-> CurrentDate - u.last_active_date > 30]]

\* ------------------------------------------------------------- operations
\* python attribution.py: the frame is written to the enriched file; the
\* frame read from user_base.csv dies with the process, the file is not
\* rewritten
RunAttribution ==
    LET r == assign_last_touch(content, users, WINDOW_DAYS, tieRank)
    IN /\ attributed' = r.ret
       /\ window' = WINDOW_DAYS
       /\ hasEnriched' = TRUE
       /\ enrichedFile' = r.ret
       /\ op' = "attribution"
       /\ UNCHANGED <<content, users, tieRank, ledger, show_rev, genre_fin,
                      rows, wi, swPc, plot>>

\* read_csv leaves a column with no value in it as float64, and a merge of a
\* float64 key with the catalog's string key raises ValueError
AllNull(us) == \A i \in DOMAIN us : us[i].attributed_show_id = NULL
load_users == IF hasEnriched THEN enrichedFile ELSE users

\* a file the pipeline wrote has genre and production_cost columns: the merge
\* with the catalog suffixes both, and groupby('genre') raises KeyError
PipelineWritten(file) == file # <<>> /\ "months_active" \in DOMAIN file[1]

\* python analysis_and_plots.py
RunAnalysis ==
    LET loaded == load_users
        lt == compute_ltv(loaded)
        sr == WithRoi(ShowRev(lt, content))
    IN /\ IF AllNull(loaded)
          THEN /\ op' = "analysis ValueError"
               /\ UNCHANGED <<ledger, show_rev, genre_fin>>
          ELSE IF PipelineWritten(loaded)
          THEN /\ op' = "analysis KeyError"
               /\ UNCHANGED <<ledger, show_rev, genre_fin>>
          ELSE /\ op' = "analysis"
               /\ ledger' = lt
               /\ show_rev' = sr
               /\ genre_fin' = GenreFin(sr)
       /\ UNCHANGED <<content, users, tieRank, window, attributed, hasEnriched,
                      enrichedFile, rows, wi, swPc, plot>>

\* python complete_pipeline.py: the seed is fixed, so netflix_content.csv and
\* user_base.csv are written again with the rows the generators gave them,
\* and user_attribution_enriched.csv is written from them
RunPipeline ==
    /\ hasEnriched' = TRUE
    /\ enrichedFile' = create_attribution_enriched(users, content)
    /\ op' = "pipeline"
    /\ UNCHANGED <<content, users, tieRank, window, attributed, ledger, show_rev,
                   genre_fin, rows, wi, swPc, plot>>

\* python sensitivity_analysis.py: main up to the loop
SweepMain ==
    /\ swPc \in {"idle", "done"}
    /\ swPc' = "loop"
    /\ wi' = 0
    /\ rows' = <<>>
    /\ op' = "sweep"
    /\ UNCHANGED <<content, users, tieRank, window, attributed, hasEnriched,
                   enrichedFile, ledger, show_rev, genre_fin, plot>>

\* one pass of `for w in windows`
SweepWindow ==
    /\ swPc = "loop"
    /\ wi < Len(windows)
    /\ LET w == windows[wi + 1]
           c == LoopCall(content, users, w, tieRank)
           gf == compute_genre_metrics(c.attributed, content)
       IN /\ users' = c.users
          /\ attributed' = c.attributed
          /\ window' = w
          /\ ledger' = compute_ltv(c.attributed)
          /\ genre_fin' = gf
          /\ rows' = AppendRows(rows, WindowRows(w, gf))
    /\ wi' = wi + 1
    /\ op' = "sweep"
    /\ UNCHANGED <<content, tieRank, hasEnriched, enrichedFile, show_rev,
                   swPc, plot>>

\* df_plot = pd.DataFrame(rows) and the chart written from it
SweepPlot ==
    /\ swPc = "loop"
    /\ wi = Len(windows)
    /\ plot' = rows
    /\ swPc' = "done"
    /\ op' = "sweep"
    /\ UNCHANGED <<content, users, tieRank, window, attributed, hasEnriched,
                   enrichedFile, ledger, show_rev, genre_fin, rows, wi>>

\* ------------------------------------------------------------ the inputs
Shows(Rel, CostS, GenreS) ==
    {c \in [1..NShows -> [show_id : Range(ShowIds), genre : GenreS,
                          release_date : Rel, production_cost : CostS]] :
        \A i \in 1..NShows : c[i].show_id = ShowIds[i]}
Ledgers(SignS, LA, RevS, PriorS) ==
    {u \in [1..NUsers -> [user_id : Range(UserIds), sign_up_date : SignS,
                          last_active_date : UNION {LA[s] : s \in SignS},
                          monthly_revenue : RevS, attributed_show_id : PriorS]] :
        \A i \in 1..NUsers : /\ u[i].user_id = UserIds[i]
                             /\ u[i].last_active_date \in LA[u[i].sign_up_date]}
InitWith(Cats, Leds, Ranks) ==
    /\ content \in Cats
    /\ users \in Leds
    /\ tieRank \in Ranks
    /\ window = WINDOW_DAYS
    /\ attributed = <<>>
    /\ hasEnriched = FALSE
    /\ enrichedFile = <<>>
    /\ ledger = <<>>
    /\ show_rev = <<>>
    /\ genre_fin = <<>>
    /\ rows = <<>>
    /\ wi = 0
    /\ swPc = "idle"
    /\ plot = <<>>
    /\ op = "loaded"

SameDay == [s \in SignupDates |-> {s}]
\* tied rows come out of the unstable sort in file order, or reversed
TieOrders == {[i \in 1..NShows |-> i], [i \in 1..NShows |-> NShows + 1 - i]}
FileOrder == {[i \in 1..NShows |-> i]}

\* the resolver and the sweep: release dates, signup dates, prior
\* attributions and tie orders vary
Init ==
    InitWith(Shows(ReleaseDates, {1000}, {"Sci-Fi"}),
             Ledgers(SignupDates, SameDay, {10}, {NULL, "S1"}),
             TieOrders)
Next == SweepMain \/ SweepWindow \/ SweepPlot
Spec == Init /\ [][Next]_vars

\* the LTV calculator: signup and last-active dates and revenues vary
InitLtv ==
    InitWith(Shows({0}, {1000}, {"Sci-Fi"}),
             Ledgers({7, 14}, LastActiveDates, Revenues, {"S1"}),
             FileOrder)
NextFiles == RunAttribution \/ RunAnalysis \/ RunPipeline
SpecLtv == InitLtv /\ [][NextFiles]_vars

\* the roll-ups: costs, genres, lifetimes and the attributions on file vary
InitRollup ==
    InitWith(Shows({0}, Costs, Genres),
             Ledgers({7}, [s \in {7} |-> {s, 62}], {10}, {NULL, "S1", "S2", StrayId}),
             FileOrder)
NextRollup == RunAnalysis
SpecRollup == InitRollup /\ [][NextRollup]_vars

\* ================================================================ claims
CatalogIds == {content[j].show_id : j \in DOMAIN content}
Attr(us, i) == us[i].attributed_show_id
\* the catalog rows eligible for user u under window w
Eligible(u, w) ==
    {j \in DOMAIN content : /\ content[j].release_date <= u.sign_up_date
                            /\ u.sign_up_date <= content[j].release_date + w}
ReleaseOf(id) == content[CHOOSE j \in DOMAIN content : content[j].show_id = id].release_date
Permute(cat, p) == [k \in DOMAIN cat |-> cat[p[k]]]
Resolve(cat, us, w, rank) == assign_last_touch(cat, us, w, rank).ret
RECURSIVE SumOver(_, _)
SumOver(S, f) ==
    IF S = {} THEN 0
    ELSE LET x == CHOOSE y \in S : TRUE IN f[x] + SumOver(S \ {x}, f)

\* C1: after assign_last_touch, every user with an eligible item is attributed
\* to an eligible item of maximal release_date, and the release_date selected
\* is the same for every ordering of the catalog rows.
C1_LastTouchCorrect ==
    attributed # <<>> =>
        /\ \A i \in DOMAIN users :
              LET E == Eligible(users[i], window)
              IN E # {} =>
                    \E j \in E :
                        /\ content[j].show_id = Attr(attributed, i)
                        /\ \A k \in E : content[k].release_date <= content[j].release_date
        /\ \A p \in Perms(NShows) : \A rk \in TieOrders :
              LET other == Resolve(Permute(content, p), users, window, rk)
              IN \A i \in DOMAIN users :
                    Eligible(users[i], window) # {} =>
                        ReleaseOf(Attr(other, i)) = ReleaseOf(Attr(attributed, i))
\* a user with two eligible items released on different days, the later one
\* listed first in the catalog
C1_Witness ==
    /\ attributed # <<>>
    /\ content[1].release_date > content[2].release_date
    /\ \E i \in DOMAIN users : Eligible(users[i], window) = {1, 2}

\* C2: a user who enters assign_last_touch with a non-null attribution and has
\* no eligible item leaves with the same attribution, also when no user of the
\* ledger has an eligible item.
C2_NonDestructiveFallback ==
    attributed # <<>> =>
        \A i \in DOMAIN users :
            (Attr(users, i) # NULL /\ Eligible(users[i], window) = {})
                => Attr(attributed, i) = Attr(users, i)

\* the rows a run of resolver, LTV and aggregator on the ledger as loaded adds
\* for window w alone
StandaloneRows(w) ==
    WindowRows(w, compute_genre_metrics(Resolve(content, users, w, tieRank), content))
RowsStandalone ==
    swPc = "loop" =>
        /\ Len(rows) = wi * Len(GenresOfInterest)
        /\ \A k \in 1..wi :
              SubSeq(rows, (k - 1) * Len(GenresOfInterest) + 1, k * Len(GenresOfInterest))
                  = StandaloneRows(windows[k])
\* C6: the rows the sweep holds for each window handled equal the rows of a
\* run of resolver, LTV and aggregator on the ledger as loaded with that window
\* alone, and no sweep point changes the ledger or the catalog.
C6_SweepIndependent ==
    /\ []RowsStandalone
    /\ [][users' = users /\ content' = content]_vars
\* the second window handled, after a first window in which no user had an
\* eligible item, with a prior attribution on the ledger
C6_Witness ==
    /\ swPc = "loop" /\ wi = 2
    /\ \E i \in DOMAIN users : Attr(users, i) # NULL /\ Eligible(users[i], windows[2]) = {}
    /\ \A i \in DOMAIN users : Eligible(users[i], windows[1]) = {}
    /\ \E i \in DOMAIN users : Eligible(users[i], windows[2]) # {}

C8_WindowMonotone ==
    attributed # <<>> =>
        \A w2 \in Range(windows) : w2 > window =>
            LET fresh == Resolve(content, users, w2, tieRank)
                chained == Resolve(content, attributed, w2, tieRank)
            IN \A i \in DOMAIN users : Attr(attributed, i) # NULL =>
                  /\ Attr(fresh, i) # NULL
                  /\ Attr(chained, i) # NULL
\* a user attributed under the smallest window who has more eligible items
\* under a larger one
C8_Witness ==
    /\ attributed # <<>> /\ window = windows[1]
    /\ \E i \in DOMAIN users :
          /\ Attr(attributed, i) # NULL
          /\ Eligible(users[i], window) # {}
          /\ Eligible(users[i], windows[3]) # Eligible(users[i], window)

\* C3: for last_active_date >= sign_up_date, lifetime_months is the calendar
\* month difference floored at 1, from year and month alone, ltv is
\* monthly_revenue * lifetime_months, and two dates of one calendar month
\* give 1.
C3_LtvCalendarMonths ==
    ledger # <<>> =>
        \A i \in DOMAIN ledger :
            LET u == ledger[i]
                a == u.sign_up_date
                b == u.last_active_date
                raw == (YearOf(b) - YearOf(a)) * 12 + (MonthOf(b) - MonthOf(a))
            IN b >= a =>
                /\ u.lifetime_months = (IF raw > 1 THEN raw ELSE 1)
                /\ u.ltv = u.monthly_revenue * u.lifetime_months
                /\ (YearOf(a) = YearOf(b) /\ MonthOf(a) = MonthOf(b)) => u.lifetime_months = 1
                /\ (a = 14 /\ b = 62) => u.lifetime_months = 2
\* 2024-12-15 to 2025-02-01: two calendar months in 48 days; and 2024-12-08
\* to 2024-12-31: 23 days of one month
C3_Witness ==
    /\ ledger # <<>>
    /\ \E i \in DOMAIN ledger : ledger[i].sign_up_date = 14 /\ ledger[i].last_active_date = 62
    /\ \E i \in DOMAIN ledger : ledger[i].sign_up_date = 7 /\ ledger[i].last_active_date = 30

\* C4: every catalog show with an attributed user has one show row, with the
\* number of its users, the sum of their ltv, the catalog's cost and, for a
\* positive cost, roi = (total_revenue - production_cost) / production_cost.
C4_ShowAggregation ==
    op = "analysis" =>
        \A j \in DOMAIN content :
            LET id == content[j].show_id
                A == {i \in DOMAIN ledger : Attr(ledger, i) = id}
                R == {k \in DOMAIN show_rev : show_rev[k].attributed_show_id = id}
                rev == SumOver(A, [i \in A |-> ledger[i].ltv])
                cost == content[j].production_cost
            IN A # {} =>
                /\ Cardinality(R) = 1
                /\ \A k \in R :
                      /\ show_rev[k].attributed_users = Cardinality(A)
                      /\ show_rev[k].total_revenue = rev
                      /\ show_rev[k].production_cost = Num(cost)
                      /\ cost > 0 => show_rev[k].roi = Frac(rev - cost, cost)
\* one user with ltv 10 on a show costing 1000: roi -0.99; and a show with two
\* users
C4_Witness ==
    /\ op = "analysis"
    /\ \E k \in DOMAIN show_rev :
          /\ show_rev[k].attributed_users = 1 /\ show_rev[k].total_revenue = 10
          /\ show_rev[k].production_cost = Num(1000)
          /\ show_rev[k].roi = Frac(-99, 100)
    /\ \E k \in DOMAIN show_rev : show_rev[k].attributed_users >= 1
                                  /\ show_rev[k].total_revenue > 10

\* C5: a show with production_cost 0 has an undefined roi, and a genre with
\* an attributed user and zero total production cost has an undefined
\* cac_per_user and ltv_to_cac (the undefined marker, not inf, not a number).
C5_ZeroCostUndefined ==
    op = "analysis" =>
        /\ \A k \in DOMAIN show_rev :
              show_rev[k].production_cost = Num(0) => show_rev[k].roi = NaN
        /\ \A k \in DOMAIN genre_fin :
              (genre_fin[k].total_attributed_users > 0 /\ genre_fin[k].total_prod_cost = 0)
                  => genre_fin[k].cac_per_user = NaN /\ genre_fin[k].ltv_to_cac = NaN

\* C9: a user whose attributed_show_id matches no catalog id contributes no
\* row to the show roll-up.
C9_UnresolvedExcluded ==
    op = "analysis" =>
        \A k \in DOMAIN show_rev : show_rev[k].attributed_show_id \in CatalogIds

\* C10: over all genres, total_attributed_users sums to the number of users
\* attributed to a catalog id and total_revenue to the sum of their ltv; users
\* with no attribution count nowhere.
C10_OrganicExcluded ==
    op = "analysis" =>
        LET A == {i \in DOMAIN ledger : Attr(ledger, i) \in CatalogIds}
        IN /\ SumSeq([k \in DOMAIN genre_fin |-> genre_fin[k].total_attributed_users])
                 = Cardinality(A)
           /\ SumSeq([k \in DOMAIN genre_fin |-> genre_fin[k].total_revenue])
                 = SumOver(A, [i \in A |-> ledger[i].ltv])
\* an analysis over a user without attribution, one attributed to a catalog
\* show and hence a genre row
C10_Witness ==
    /\ op = "analysis"
    /\ \E i \in DOMAIN ledger : Attr(ledger, i) = NULL
    /\ \E i \in DOMAIN ledger : Attr(ledger, i) \in CatalogIds
    /\ genre_fin # <<>>

\* the users of frame att attributed to a catalog show of genre g
GenreUsers(att, g) ==
    {i \in DOMAIN att : \E j \in DOMAIN content : /\ content[j].show_id = Attr(att, i)
                                                  /\ content[j].genre = g}
\* C11: for every window the sweep has handled and each genre of interest
\* with no attributed user under that window, the sweep holds exactly one row
\* for the (window, genre) pair, its ltv_to_cac is NaN and not the number 0,
\* and the sweep has raised nothing.
C11_RatioSafety ==
    /\ op \in {"loaded", "sweep"}
    /\ swPc = "loop" =>
          \A k \in 1..wi :
              LET att == Resolve(content, users, windows[k], tieRank)
              IN \A g \in DOMAIN GenresOfInterest :
                    GenreUsers(att, GenresOfInterest[g]) = {} =>
                        LET R == {r \in DOMAIN rows : /\ rows[r].window = windows[k]
                                                      /\ rows[r].genre = GenresOfInterest[g]}
                        IN /\ Cardinality(R) = 1
                           /\ \A r \in R : /\ rows[r].ltv_to_cac = NaN
                                            /\ rows[r].ltv_to_cac # Num(0)
\* the end of the loop with a window under which Sci-Fi has no attributed
\* user and a window under which it has one
C11_Witness ==
    /\ swPc = "loop" /\ wi = Len(windows)
    /\ \E k \in 1..wi :
          GenreUsers(Resolve(content, users, windows[k], tieRank), "Sci-Fi") = {}
    /\ \E r \in DOMAIN rows : rows[r].genre = "Sci-Fi" /\ rows[r].ltv_to_cac # NaN

\* C12: for a user whose eligible items of maximal release_date are two or
\* more, assign_last_touch selects the same show_id whatever the order of the
\* catalog rows in the file and whatever order the sort gives tied rows.
C12_TieBreakDeterministic ==
    attributed # <<>> =>
        \A p \in Perms(NShows) : \A rk \in TieOrders :
            LET other == Resolve(Permute(content, p), users, window, rk)
            IN \A i \in DOMAIN users :
                  Eligible(users[i], window) # {} => Attr(other, i) = Attr(attributed, i)

\* C13: no ledger with lifetime_months and ltv holds a row of a user whose
\* last_active_date is before the sign_up_date: such a record is rejected
\* before the LTV stage.
C13_MalformedRejected ==
    ledger # <<>> =>
        \A i \in DOMAIN ledger : ledger[i].last_active_date >= ledger[i].sign_up_date

\* C14: in every frame with a lifetime and an ltv per user, from compute_ltv
\* and from the pipeline's create_attribution_enriched, a user with
\* sign_up_date = last_active_date has a lifetime of 1 month and
\* ltv = monthly_revenue.
C14_LtvFloorEveryPath ==
    /\ ledger # <<>> =>
          \A i \in DOMAIN ledger :
              ledger[i].sign_up_date = ledger[i].last_active_date =>
                  /\ ledger[i].lifetime_months = 1
                  /\ ledger[i].ltv = ledger[i].monthly_revenue
    /\ PipelineWritten(enrichedFile) =>
          \A i \in DOMAIN enrichedFile :
              enrichedFile[i].sign_up_date = enrichedFile[i].last_active_date =>
                  /\ enrichedFile[i].months_active = Num(1)
                  /\ enrichedFile[i].ltv = Num(enrichedFile[i].monthly_revenue)

\* C15: on a ledger with no prior attribution, a user attributed by
\* assign_last_touch under window W to a show released on day R is attributed
\* under every window W' >= W of the sweep to a show released on day R, so
\* the attributions that differ between W and W' are of users unattributed
\* under W.
C15_LargerWindowKeepsRelease ==
    (attributed # <<>> /\ AllNull(users)) =>
        \A w2 \in Range(windows) : w2 >= window =>
            LET wider == Resolve(content, users, w2, tieRank)
            IN \A i \in DOMAIN users :
                  /\ Attr(attributed, i) # NULL =>
                        /\ Attr(wider, i) # NULL
                        /\ ReleaseOf(Attr(wider, i)) = ReleaseOf(Attr(attributed, i))
                  /\ ((Attr(wider, i) = NULL) # (Attr(attributed, i) = NULL))
                        => Attr(attributed, i) = NULL
\* a ledger with no prior attribution, a user attributed under the smallest
\* window whom a larger window offers an earlier show as well, and a user who
\* gains an attribution only under a larger window
C15_Witness ==
    /\ attributed # <<>> /\ AllNull(users) /\ window = windows[1]
    /\ \E i \in DOMAIN users :
          /\ Attr(attributed, i) # NULL
          /\ \E j \in Eligible(users[i], windows[3]) \ Eligible(users[i], window) :
                content[j].release_date < ReleaseOf(Attr(attributed, i))
    /\ \E i \in DOMAIN users :
          /\ Attr(attributed, i) = NULL
          /\ Eligible(users[i], windows[3]) # {}

\* C16: a genre with an attributed catalog show has one genre row; its
\* total_prod_cost is the sum of production_cost over the catalog shows of the
\* genre with at least one attributed user, each show once, and its
\* cac_per_user is that sum divided by the number of users attributed to
\* those shows; a genre none of whose shows has a user has no row.
C16_GenreCostOncePerShow ==
    op = "analysis" =>
        \A g \in Genres :
            LET S == {j \in DOMAIN content :
                        /\ content[j].genre = g
                        /\ \E i \in DOMAIN ledger : Attr(ledger, i) = content[j].show_id}
                U == {i \in DOMAIN ledger :
                        \E j \in S : Attr(ledger, i) = content[j].show_id}
                R == {k \in DOMAIN genre_fin : genre_fin[k].genre = g}
                cost == SumOver(S, [j \in S |-> content[j].production_cost])
            IN /\ S = {} => R = {}
               /\ S # {} =>
                     /\ Cardinality(R) = 1
                     /\ \A k \in R : /\ genre_fin[k].total_prod_cost = cost
                                      /\ genre_fin[k].cac_per_user = Frac(cost, Cardinality(U))
\* two users attributed to one show costing 1000 while the other show of the
\* genre, costing 1000 as well, has no user
C16_Witness ==
    /\ op = "analysis"
    /\ Len(show_rev) = 1
    /\ content[1].genre = content[2].genre
    /\ content[1].production_cost = 1000 /\ content[2].production_cost = 1000
    /\ \E k \in DOMAIN genre_fin : /\ genre_fin[k].total_attributed_users = 2
                                    /\ genre_fin[k].total_prod_cost = 1000
                                    /\ genre_fin[k].cac_per_user = Num(500)

====
